---- MODULE Spec2Model ----
(***************************************************************************)
(* Model of src/src/youtube.rs: the poll primitive poll_js, the consent    *)
(* resolver (has_consent_dialog, dismiss_consent) and the readiness        *)
(* sequencer prepare, run against a browser tab whose page is controlled   *)
(* by the environment.                                                     *)
(*                                                                         *)
(* Time is an integer number of milliseconds.  A URL is a sequence of      *)
(* tokens, cut so that the two needles the code searches for ('consent'    *)
(* and "youtube.com") are whole tokens; substring search is search for a   *)
(* token.                                                                  *)
(***************************************************************************)
EXTENDS Integers, Sequences, FiniteSets, TLC

\* ------------------------------------------------------------------ bounds
\* longest time one tab.evaluate call takes, in steps of 250 ms
MaxEvalSteps == 2
\* longest time one wait_until_navigated call takes, in steps of 250 ms
MaxNavSteps == 3
\* largest budget a caller hands to prepare, in steps of 250 ms
MaxDeadlineSteps == 3

\* ------------------------------------------------------- program constants
\* std::thread::sleep(Duration::from_millis(500)) in poll_js
PollIntervalMs == 500
\* frame settle pause
FrameSettleMs == 500
\* pause after the theater-mode click
TheaterSettleMs == 500
\* Duration::from_secs(3), controls fade-out
FadeOutMs == 3000
\* v.readyState>=3 in playing_js
HaveFutureData == 3

\* --------------------------------------------------------------------- URLs
TargetUrl == <<"https://", "www.", "youtube.com", "/watch?v=x">>
HomeUrl == <<"https://", "www.", "youtube.com">>
ConsentUrl == <<"https://", "consent", ".", "google.com", "/m">>
ConsentContinueUrl ==
    <<"https://", "consent", ".", "google.com", "/m?continue=",
      "https://", "www.", "youtube.com", "/watch?v=x">>

\* str::contains / String.prototype.indexOf(..) !== -1
Contains(url, needle) == \E i \in 1..Len(url) : url[i] = needle

\* the host of a URL: the tokens after the scheme up to the first path token
RECURSIVE HostEnd(_, _)
HostEnd(url, i) ==
    IF i > Len(url) THEN Len(url)
    ELSE IF url[i] \in {"/m", "/m?continue=", "/watch?v=x"} THEN i - 1
    ELSE HostEnd(url, i + 1)

\* the page of this URL belongs to the domain .youtube.com
OnSite(url) == url[HostEnd(url, 2)] = "youtube.com"

\* where a navigation to url can land: the site may redirect to its consent
\* domain
LandingUrls(url) == {url, ConsentUrl, ConsentContinueUrl}

\* --------------------------------------------------------------------- page
Markers == {"none", "ytd-consent-bump-v2-lightbox", "tp-yt-paper-dialog", "button"}
Players == {"absent", "idle", "ad-showing"}
ReadyStates == {HaveFutureData - 1, HaveFutureData}
NoVideo == [present |-> FALSE, readyState |-> 0, paused |-> TRUE]
Videos == {NoVideo} \cup [present : {TRUE}, readyState : ReadyStates, paused : BOOLEAN]
Docs == [marker : Markers, player : Players, video : Videos]

EvalTimes == {0, 250 * MaxEvalSteps}
NavTimes == {0, 250 * MaxNavSteps}
\* a deadline that has passed when prepare is entered, and one that has not
Deadlines == {0, 250 * MaxDeadlineSteps}

\* ------------------------------------------------------ script evaluation
\* what tab.evaluate hands back: an error, or the script's value
EvalErr == [t |-> "err", b |-> FALSE]
JsNull == [t |-> "null", b |-> FALSE]
JsBool(b) == [t |-> "bool", b |-> b]

\* .ok().and_then(|r| r.value).and_then(|v| v.as_bool()): an Option<bool>,
\* here a sequence of length at most one
AsBool(r) == IF r.t = "bool" THEN <<r.b>> ELSE <<>>
UnwrapOr(opt, default) == IF opt = <<>> THEN default ELSE opt[1]

\* the detection script of has_consent_dialog
ConsentJs(u, d) ==
    IF Contains(u, "consent") THEN JsBool(TRUE)
    ELSE IF d.marker = "ytd-consent-bump-v2-lightbox" THEN JsBool(TRUE)
    ELSE IF d.marker = "tp-yt-paper-dialog" THEN JsBool(TRUE)
    ELSE IF d.marker = "button" THEN JsBool(TRUE)
    ELSE JsBool(FALSE)

\* ad_js: p ? p.classList.contains('ad-showing') : false
AdJs(d) == JsBool(IF d.player # "absent" THEN d.player = "ad-showing" ELSE FALSE)

\* document.querySelector('video') !== null
VideoJs(d) == JsBool(d.video.present)

\* playing_js: v && v.readyState>=3 && !v.paused  (null when there is no video)
PlayingJs(d) ==
    IF ~d.video.present THEN JsNull
    ELSE JsBool(d.video.readyState >= HaveFutureData /\ ~d.video.paused)

\* the three polls of prepare: their script and the value they wait for
PollStages == {"ad-wait", "media-wait", "playback-confirm"}

\* every poll waiting for true
PollExpectTrue(st) == st \in PollStages

PollScript(st, d) ==
    CASE st = "ad-wait" -> AdJs(d)
      [] st = "media-wait" -> VideoJs(d)
      [] st = "playback-confirm" -> PlayingJs(d)
PollExpect(st) == st # "ad-wait"

\* a failed evaluation counted as false whatever is expected
PollValueDefaultFalse(r, expect) == UnwrapOr(AsBool(r), FALSE)

\* the value poll_js compares with expect: a failed evaluation counts as !expect
PollValue(r, expect) == UnwrapOr(AsBool(r), ~expect)

\* the comparison the wrong way round
PollBranchInverted(val, expect) == IF val # expect THEN "poll_some" ELSE "poll_sleep"

\* where the loop body goes after the comparison: return Some(()), or sleep
PollBranch(val, expect) == IF val = expect THEN "poll_some" ELSE "poll_sleep"

\* the deadline instant itself still admitted
PollGuardInclusive(t, dl) == t <= dl

\* one more tick admitted after the deadline
PollGuardGrace(t, dl) == t < dl + PollIntervalMs

\* the loop condition of poll_js
PollGuard(t, dl) == t < dl

\* a failed detection counted as a dialog, unwrap_or(true)
HasConsentDialogDefaultTrue(r) == UnwrapOr(AsBool(r), TRUE)

\* the answer of the detection script taken the wrong way round
HasConsentDialogNegated(r) == ~UnwrapOr(AsBool(r), FALSE)

\* has_consent_dialog: a failed evaluation counts as "no dialog"
HasConsentDialog(r) == UnwrapOr(AsBool(r), FALSE)

\* what the playback-kick script can do to the page: play() may start the
\* video or be rejected
KickEffects(d) ==
    {d} \cup (IF d.video.present
              THEN {[d EXCEPT !.video.paused = FALSE]}
              ELSE {})

\* the cookies the script-level write leaves in the jar: the browser keeps a
\* cookie for .youtube.com only when the page is on that domain
ScriptCookies(u) ==
    IF OnSite(u)
    THEN {[name |-> "SOCS", domain |-> ".youtube.com"],
          [name |-> "CONSENT", domain |-> ".youtube.com"]}
    ELSE {}

\* what one tab.evaluate call of a script whose value is v can hand back: an
\* error (the script threw, the transport failed) or the value
EvalOutcomes(v) == {EvalErr, v}

\* -------------------------------------------------------------------- state
VARIABLES
    pc,          \* where the caller's thread is
    stage,       \* the stage of prepare it is in
    now,         \* Instant::now(), ms since the entry of prepare
    deadline,    \* the deadline argument of prepare
    url,         \* tab.get_url()
    doc,         \* the document of the tab
    cookies,     \* the cookie jar of the browser
    result,      \* what prepare returned, "none" while it runs
    ops,         \* navigations and cookie writes issued by the current
                 \* dismiss_consent call, in order
    detect,      \* what has_consent_dialog saw in that call
    evald,       \* the scripts prepare itself has evaluated in this call
    adCleared,   \* an ad-wait evaluation of this call returned false
    poll,        \* bookkeeping of the current poll_js call
    entry,       \* url and cookies when the current dismiss_consent call began
    swallowed,   \* the best-effort scripts whose evaluation failed in this call
    diag,        \* the diagnostic snapshot taken by this call
    timeout_secs, \* the timeout_secs argument of prepare
    message,     \* the text of the error this call returned
    cdp,         \* the protocol-level SetCookies calls made on the tab
    scene,       \* what this call has met so far: "steady", "hampered", "other"
    polled       \* the time this call has spent inside poll_js, in ms

vars == <<pc, stage, now, deadline, url, doc, cookies, result, ops,
          detect, evald, adCleared, poll, entry, swallowed, diag,
          timeout_secs, message, cdp, scene, polled>>

NotEvaluated == [t |-> "none", b |-> FALSE]
NoPoll == [evals |-> 0, sleeps |-> 0, last |-> NotEvaluated, lastStart |-> 0,
           lastDur |-> 0, overlaps |-> 0]
NoDetect == [done |-> FALSE, found |-> FALSE, outcome |-> NotEvaluated,
             url |-> <<>>]

NoEntry == [url |-> <<>>, cookies |-> {}]
NoDiag == [text |-> "none", readyState |-> 0, paused |-> FALSE]

\* the seconds the caller's budget was made of: it fixed the deadline as
\* its start plus timeout_secs and entered prepare after its own navigation,
\* with a 1 s budget partly spent or a 2 s budget used up
\* a page with no consent marker, no ad showing and a media element that is
\* buffered and playing: the consent, ad and playing scripts read false,
\* false and true (and the media script true)
HappyPage(u, d) ==
    /\ ConsentJs(u, d) = JsBool(FALSE)
    /\ AdJs(d) = JsBool(FALSE)
    /\ VideoJs(d) = JsBool(TRUE)
    /\ PlayingJs(d) = JsBool(TRUE)

\* "steady": the page has been happy since prepare was entered, every poll
\* evaluation succeeded and every deadline test of poll_js passed;
\* "hampered": the page has been happy, but an evaluation failed or a
\* deadline test found the deadline passed; "other": the page was not happy
SceneOf(u, d) == IF HappyPage(u, d) THEN "steady" ELSE "other"
Hampered(sc) == IF sc = "steady" THEN "hampered" ELSE sc

CallerTimeoutSecs(dl) == IF dl = 0 THEN 2 ELSE 1

\* the timeout errors of prepare, anyhow!(..) and bail!(..)
NoMessage == [text |-> "", secs |-> 0]
AdsMessageNoSecs(secs) ==
    [text |-> "Timed out waiting for YouTube ads to finish ({}s)", secs |-> 0]
AdsMessage(secs) ==
    [text |-> "Timed out waiting for YouTube ads to finish ({}s)", secs |-> secs]
VideoMessage(secs) ==
    [text |-> "Timed out after {}s waiting for a <video> element", secs |-> secs]
PlayMessage(secs) ==
    [text |-> "Timed out after {}s waiting for video to play. State: {}",
     secs |-> secs]

Init ==
    /\ pc = "dc_detect"
    /\ stage = "consent"
    /\ now = 0
    /\ deadline \in Deadlines
    /\ url \in LandingUrls(TargetUrl)
    /\ doc \in Docs
    /\ cookies = {}
    /\ result = "none"
    /\ ops = <<>>
    /\ detect = NoDetect
    /\ evald = {}
    /\ adCleared = FALSE
    /\ poll = NoPoll
    /\ entry = [url |-> url, cookies |-> cookies]
    /\ swallowed = {}
    /\ diag = NoDiag
    /\ timeout_secs = CallerTimeoutSecs(deadline)
    /\ message = NoMessage
    /\ cdp = <<>>
    /\ scene = SceneOf(url, doc)
    /\ polled = 0

\* ------------------------------------------------------------ environment
\* ads start and end, the media element appears and buffers by itself; the
\* consent marker is decided when the page loads
PageChange ==
    /\ pc # "done"
    /\ \/ \E p \in Players \ {doc.player} : doc' = [doc EXCEPT !.player = p]
       \/ \E v \in Videos \ {doc.video} : doc' = [doc EXCEPT !.video = v]
    /\ scene' = IF HappyPage(url, doc') THEN scene ELSE "other"
    /\ UNCHANGED <<pc, stage, now, deadline, url, cookies, result, ops,
                   detect, evald, adCleared, poll, entry, swallowed, diag,
                   timeout_secs, message, cdp, polled>>

\* ---------------------------------------------------------------- poll_js
\* entering poll_js for the stage st
EnterPoll(st) ==
    /\ pc' = "poll"
    /\ stage' = st
    /\ poll' = NoPoll

\* one pass of the while loop up to the sleep: the deadline test, the
\* evaluation and the comparison
PollTick ==
    /\ pc = "poll"
    /\ IF PollGuard(now, deadline)
       THEN \E d \in EvalTimes, r \in EvalOutcomes(PollScript(stage, doc)) :
              /\ now' = now + d
              /\ polled' = polled + d
              /\ evald' = evald \cup {stage}
              /\ poll' = [poll EXCEPT !.evals = @ + 1,
                            !.last = r, !.lastStart = now, !.lastDur = d]
              /\ adCleared' = (adCleared \/
                                 (stage = "ad-wait" /\ AsBool(r) = <<FALSE>>))
              /\ pc' = PollBranch(PollValue(r, PollExpect(stage)), PollExpect(stage))
              /\ scene' = IF r = EvalErr THEN Hampered(scene) ELSE scene
       ELSE /\ pc' = "poll_none"
            /\ scene' = Hampered(scene)
            /\ UNCHANGED <<now, polled, evald, poll, adCleared>>
    /\ UNCHANGED <<stage, deadline, url, doc, cookies, result, ops,
                   detect, entry, swallowed, diag,
                   timeout_secs, message, cdp>>

\* std::thread::sleep(Duration::from_millis(500))
PollSleep ==
    /\ pc = "poll_sleep"
    /\ now' = now + PollIntervalMs
    /\ polled' = polled + PollIntervalMs
    /\ poll' = [poll EXCEPT !.sleeps = @ + 1,
                  !.overlaps = IF now < deadline /\ now' >= deadline
                               THEN @ + 1 ELSE @]
    /\ pc' = "poll"
    /\ UNCHANGED <<stage, deadline, url, doc, cookies, result, ops,
                   detect, evald, adCleared, entry, swallowed, diag,
                   timeout_secs, message, cdp, scene>>

\* ------------------------------------------------------- dismiss_consent
\* prepare returns with the given outcome
Return(kind) ==
    /\ pc' = "done"
    /\ result' = kind

\* the home page visited whatever the current URL
NeedsHomeHopAlways(current) == Len(current) >= 0

\* the test that sends dismiss_consent through the home page first
NeedsHomeHop(current) == ~Contains(current, "youtube.com")

\* has_consent_dialog and the branch on the current URL
DcDetect ==
    /\ pc = "dc_detect"
    /\ \E d \in EvalTimes, r \in EvalOutcomes(ConsentJs(url, doc)) :
         /\ now' = now + d
         /\ detect' = [done |-> TRUE, found |-> HasConsentDialog(r),
                       outcome |-> r, url |-> url]
         /\ pc' = IF ~HasConsentDialog(r) THEN "dc_ok"
                  ELSE IF NeedsHomeHop(url) THEN "dc_home_nav"
                  ELSE "dc_cookie"
    /\ UNCHANGED <<stage, deadline, url, doc, cookies, result, ops,
                   evald, adCleared, poll, entry, swallowed, diag,
                   timeout_secs, message, cdp, scene, polled>>

\* tab.navigate_to(to)?
NavigateTo(at, to, next) ==
    /\ pc = at
    /\ \E ok \in BOOLEAN :
         /\ ops' = Append(ops, [op |-> "navigate", url |-> to,
                                status |-> IF ok THEN "pending" ELSE "refused"])
         /\ pc' = IF ok THEN next ELSE "dc_nav_err"
    /\ UNCHANGED <<stage, now, deadline, url, doc, cookies, result, detect, evald, adCleared, poll, entry, swallowed,
                   diag,
                   timeout_secs, message, cdp, scene, polled>>

\* .wait_until_navigated()? on the navigation issued last; the page that
\* loads is the environment's
WaitUntilNavigated(at, to) ==
    /\ pc = at
    /\ \E d \in NavTimes, u \in LandingUrls(to), dd \in Docs :
         /\ now' = now + d
         /\ url' = u
         /\ doc' = dd
    /\ UNCHANGED <<stage, deadline, cookies, result, detect, evald,
                   adCleared, poll, entry, swallowed, diag,
                   timeout_secs, message, cdp, scene, polled>>

SetLastStatus(st) == [ops EXCEPT ![Len(ops)].status = st]

DcHomeNavigate == NavigateTo("dc_home_nav", HomeUrl, "dc_home_wait")

DcHomeWait ==
    /\ WaitUntilNavigated("dc_home_wait", HomeUrl)
    /\ \E ok \in BOOLEAN :
         /\ ops' = SetLastStatus(IF ok THEN "done" ELSE "failed")
         /\ pc' = IF ok THEN "dc_cookie" ELSE "dc_nav_err"

\* the cookie write with its failure dropped, let _ = tab.evaluate(..)
DcCookieIgnoringFailure ==
    /\ pc = "dc_cookie"
    /\ \E d \in EvalTimes, ok \in BOOLEAN :
         /\ now' = now + d
         /\ ops' = Append(ops, [op |-> "cookie", url |-> url,
                                status |-> IF ok THEN "done" ELSE "failed"])
         /\ cookies' = IF ok THEN cookies \cup ScriptCookies(url) ELSE cookies
         /\ pc' = "dc_target_nav"
    /\ UNCHANGED <<stage, deadline, url, doc, result, detect, evald,
                   adCleared, poll, entry, swallowed, diag,
                   timeout_secs, message, cdp, scene, polled>>

\* the script-level cookie write, tab.evaluate(..)?
DcCookie ==
    /\ pc = "dc_cookie"
    /\ \E d \in EvalTimes, ok \in BOOLEAN :
         /\ now' = now + d
         /\ ops' = Append(ops, [op |-> "cookie", url |-> url,
                                status |-> IF ok THEN "done" ELSE "failed"])
         /\ cookies' = IF ok THEN cookies \cup ScriptCookies(url) ELSE cookies
         /\ pc' = IF ok THEN "dc_target_nav" ELSE "dc_eval_err"
    /\ UNCHANGED <<stage, deadline, url, doc, result, detect, evald,
                   adCleared, poll, entry, swallowed, diag,
                   timeout_secs, message, cdp, scene, polled>>

\* the re-navigation going to the home page instead of the target
DcTargetNavigateHome == NavigateTo("dc_target_nav", HomeUrl, "dc_target_wait")

DcTargetNavigate == NavigateTo("dc_target_nav", TargetUrl, "dc_target_wait")

DcTargetWait ==
    /\ WaitUntilNavigated("dc_target_wait", TargetUrl)
    /\ \E ok \in BOOLEAN :
         /\ ops' = SetLastStatus(IF ok THEN "done" ELSE "failed")
         /\ pc' = IF ok THEN "dc_ok" ELSE "dc_nav_err"

\* ---------------------------------------------------------------- prepare
\* dismiss_consent(tab, url)?: its frame is gone, an error is prepare's result
ConsentReturn ==
    /\ pc \in {"dc_ok", "dc_nav_err", "dc_eval_err"}
    /\ IF pc = "dc_ok"
       THEN /\ EnterPoll("ad-wait")
            /\ UNCHANGED result
       ELSE /\ Return(IF pc = "dc_nav_err" THEN "NavigateError" ELSE "EvaluateError")
            /\ UNCHANGED <<stage, poll>>
    /\ ops' = <<>>
    /\ detect' = NoDetect
    /\ entry' = NoEntry
    /\ UNCHANGED <<now, deadline, url, doc, cookies, evald, adCleared,
                   swallowed, diag,
                   timeout_secs, message, cdp, scene, polled>>

\* a best-effort evaluation, let _ = tab.evaluate(..): its outcome is dropped
BestEffort(name) ==
    \E d \in EvalTimes, ok \in BOOLEAN :
      /\ now' = now + d
      /\ evald' = evald \cup {name}
      /\ swallowed' = IF ok THEN swallowed ELSE swallowed \cup {name}

\* a fixed pause, std::thread::sleep
Pause(ms) == now' = now + ms

\* a fresh budget handed to the media-wait poll
AdWaitReturnFreshDeadline ==
    /\ stage = "ad-wait"
    /\ pc \in {"poll_some", "poll_none"}
    /\ IF pc = "poll_some"
       THEN /\ EnterPoll("media-wait")
            /\ deadline' = now + 250 * MaxDeadlineSteps
            /\ UNCHANGED result
       ELSE /\ Return("AdsTimedOut")
            /\ poll' = NoPoll
            /\ UNCHANGED <<stage, deadline>>
    /\ message' = IF pc = "poll_some" THEN message ELSE AdsMessage(timeout_secs)
    /\ UNCHANGED <<now, url, doc, cookies, ops, detect, evald,
                   adCleared, entry, swallowed, diag, timeout_secs, cdp, scene,
                   polled>>

\* the ad-wait timeout dropped: prepare goes on to the media-wait poll
AdWaitReturnLenient ==
    /\ stage = "ad-wait"
    /\ pc \in {"poll_some", "poll_none"}
    /\ EnterPoll("media-wait")
    /\ UNCHANGED <<now, deadline, url, doc, cookies, result, ops, detect, evald,
                   adCleared, entry, swallowed, diag,
                   timeout_secs, message, cdp, scene, polled>>

\* poll_js(ad_js, false, deadline).ok_or_else(..)?
AdWaitReturn ==
    /\ stage = "ad-wait"
    /\ pc \in {"poll_some", "poll_none"}
    /\ IF pc = "poll_some"
       THEN /\ EnterPoll("media-wait")
            /\ UNCHANGED result
       ELSE /\ Return("AdsTimedOut")
            /\ poll' = NoPoll
            /\ UNCHANGED stage
    /\ message' = IF pc = "poll_some" THEN message ELSE AdsMessage(timeout_secs)
    /\ UNCHANGED <<now, deadline, url, doc, cookies, ops, detect, evald,
                   adCleared, entry, swallowed, diag, timeout_secs, cdp, scene, polled>>

\* the media-wait timeout dropped: prepare goes on to the playback kick
MediaWaitReturnLenient ==
    /\ stage = "media-wait"
    /\ pc \in {"poll_some", "poll_none"}
    /\ pc' = "kick"
    /\ stage' = "playback-kick"
    /\ poll' = NoPoll
    /\ UNCHANGED <<now, deadline, url, doc, cookies, result, ops, detect, evald,
                   adCleared, entry, swallowed, diag, timeout_secs, message,
                   cdp, scene, polled>>

\* poll_js("document.querySelector('video') !== null", true, deadline)
\*     .ok_or_else(..)?
MediaWaitReturn ==
    /\ stage = "media-wait"
    /\ pc \in {"poll_some", "poll_none"}
    /\ IF pc = "poll_some"
       THEN /\ pc' = "kick"
            /\ stage' = "playback-kick"
            /\ UNCHANGED result
       ELSE /\ Return("VideoTimedOut")
            /\ UNCHANGED stage
    /\ poll' = NoPoll
    /\ message' = IF pc = "poll_some" THEN message ELSE VideoMessage(timeout_secs)
    /\ UNCHANGED <<now, deadline, url, doc, cookies, ops, detect, evald,
                   adCleared, entry, swallowed, diag, timeout_secs, cdp, scene, polled>>

\* the playback kick with its error propagated, tab.evaluate(..)?
KickPropagating ==
    /\ pc = "kick"
    /\ doc' \in KickEffects(doc)
    /\ \E d \in EvalTimes, ok \in BOOLEAN :
         /\ now' = now + d
         /\ evald' = evald \cup {"kick_js"}
         /\ swallowed' = IF ok THEN swallowed ELSE swallowed \cup {"kick_js"}
         /\ IF ok
            THEN EnterPoll("playback-confirm") /\ UNCHANGED result
            ELSE Return("EvaluateError") /\ UNCHANGED <<stage, poll>>
    /\ UNCHANGED <<deadline, url, cookies, ops, detect, adCleared, entry, diag,
                   timeout_secs, message, cdp, scene, polled>>

\* try to start playback programmatically
Kick ==
    /\ pc = "kick"
    /\ BestEffort("kick_js")
    /\ doc' \in KickEffects(doc)
    /\ EnterPoll("playback-confirm")
    /\ UNCHANGED <<deadline, url, cookies, result, ops, detect,
                   adCleared, entry, diag,
                   timeout_secs, message, cdp, scene, polled>>

\* the test of the playback-confirm poll the wrong way round, is_some()
ConfirmReturnInverted ==
    /\ stage = "playback-confirm"
    /\ pc \in {"poll_some", "poll_none"}
    /\ IF pc = "poll_none"
       THEN /\ pc' = "settle_frame"
            /\ stage' = "settle"
       ELSE /\ pc' = "diag"
            /\ UNCHANGED stage
    /\ poll' = NoPoll
    /\ UNCHANGED <<now, deadline, url, doc, cookies, result, ops, detect,
                   evald, adCleared, entry, swallowed, diag,
                   timeout_secs, message, cdp, scene, polled>>

\* if poll_js(playing_js, true, deadline).is_none() { .. }
ConfirmReturn ==
    /\ stage = "playback-confirm"
    /\ pc \in {"poll_some", "poll_none"}
    /\ IF pc = "poll_some"
       THEN /\ pc' = "settle_frame"
            /\ stage' = "settle"
       ELSE /\ pc' = "diag"
            /\ UNCHANGED stage
    /\ poll' = NoPoll
    /\ UNCHANGED <<now, deadline, url, doc, cookies, result, ops, detect,
                   evald, adCleared, entry, swallowed, diag,
                   timeout_secs, message, cdp, scene, polled>>

\* the snapshot reporting the opposite of v.paused
DiagJsNotPaused(d) ==
    IF ~d.video.present
    THEN [text |-> "no video element", readyState |-> 0, paused |-> FALSE]
    ELSE [text |-> "state", readyState |-> d.video.readyState,
          paused |-> ~d.video.paused]

\* the value of the diagnostic script
DiagJs(d) ==
    IF ~d.video.present
    THEN [text |-> "no video element", readyState |-> 0, paused |-> FALSE]
    ELSE [text |-> "state", readyState |-> d.video.readyState,
          paused |-> d.video.paused]
DiagUnknown == [text |-> "unknown", readyState |-> 0, paused |-> FALSE]

\* the diagnostic snapshot and anyhow::bail!
Diagnose ==
    /\ pc = "diag"
    /\ \E d \in EvalTimes, ok \in BOOLEAN :
         /\ now' = now + d
         /\ diag' = IF ok THEN DiagJs(doc) ELSE DiagUnknown
    /\ evald' = evald \cup {"diag_js"}
    /\ Return("PlayTimedOut")
    /\ message' = PlayMessage(timeout_secs)
    /\ UNCHANGED <<stage, deadline, url, doc, cookies, ops, detect,
                   adCleared, poll, entry, swallowed, timeout_secs, cdp, scene, polled>>

\* frame settle
SettleFrame ==
    /\ pc = "settle_frame"
    /\ Pause(FrameSettleMs)
    /\ pc' = "theater"
    /\ UNCHANGED <<stage, deadline, url, doc, cookies, result, ops,
                   detect, evald, adCleared, poll, entry, swallowed, diag,
                   timeout_secs, message, cdp, scene, polled>>

\* theater mode
Theater ==
    /\ pc = "theater"
    /\ BestEffort("theater_js")
    /\ pc' = "settle_theater"
    /\ UNCHANGED <<stage, deadline, url, doc, cookies, result, ops,
                   detect, adCleared, poll, entry, diag,
                   timeout_secs, message, cdp, scene, polled>>

SettleTheater ==
    /\ pc = "settle_theater"
    /\ Pause(TheaterSettleMs)
    /\ pc' = "mouse"
    /\ UNCHANGED <<stage, deadline, url, doc, cookies, result, ops,
                   detect, evald, adCleared, poll, entry, swallowed, diag,
                   timeout_secs, message, cdp, scene, polled>>

\* hide controls
Mouse ==
    /\ pc = "mouse"
    /\ BestEffort("mouse_js")
    /\ pc' = "settle_fade"
    /\ UNCHANGED <<stage, deadline, url, doc, cookies, result, ops,
                   detect, adCleared, poll, entry, diag,
                   timeout_secs, message, cdp, scene, polled>>

\* controls fade-out, then Ok(())
SettleFade ==
    /\ pc = "settle_fade"
    /\ Pause(FadeOutMs)
    /\ Return("Ok")
    /\ UNCHANGED <<stage, deadline, url, doc, cookies, ops, detect,
                   evald, adCleared, poll, entry, swallowed, diag,
                   timeout_secs, message, cdp, scene, polled>>

\* the caller may retry the whole prepare call, with a fresh deadline
Retry ==
    /\ pc = "done"
    /\ pc' = "dc_detect"
    /\ stage' = "consent"
    /\ now' = 0
    /\ deadline' \in Deadlines
    /\ result' = "none"
    /\ ops' = <<>>
    /\ detect' = NoDetect
    /\ evald' = {}
    /\ adCleared' = FALSE
    /\ poll' = NoPoll
    /\ entry' = [url |-> url, cookies |-> cookies]
    /\ swallowed' = {}
    /\ diag' = NoDiag
    /\ timeout_secs' = CallerTimeoutSecs(deadline')
    /\ message' = NoMessage
    /\ scene' = SceneOf(url, doc)
    /\ polled' = 0
    /\ UNCHANGED <<url, doc, cookies, cdp>>

Next ==
    \/ PageChange
    \/ DcDetect
    \/ DcHomeNavigate
    \/ DcHomeWait
    \/ DcCookie
    \/ DcTargetNavigate
    \/ DcTargetWait
    \/ ConsentReturn
    \/ PollTick
    \/ PollSleep
    \/ AdWaitReturn
    \/ MediaWaitReturn
    \/ Kick
    \/ ConfirmReturn
    \/ Diagnose
    \/ SettleFrame
    \/ Theater
    \/ SettleTheater
    \/ Mouse
    \/ SettleFade
    \/ Retry

Spec == Init /\ [][Next]_vars

\* ---------------------------------------------------- set_consent_cookie
\* the tab before the caller's first navigation
BlankUrl == <<"about:", "blank">>

\* make_cookie(domain, url): name SOCS, path "/", secure
MakeCookie(domain, u) == [name |-> "SOCS", domain |-> domain, url |-> u]

\* the injection carrying the .youtube.com record only
SeedCookiesYoutubeOnly ==
    <<MakeCookie(".youtube.com", "https://www.youtube.com")>>

\* the cookies vector of the Network::SetCookies call
SeedCookies ==
    <<MakeCookie(".youtube.com", "https://www.youtube.com"),
      MakeCookie(".google.com", "https://www.google.com")>>

\* the cookies the browser holds once the call went through
Stored(cs) == {[name |-> cs[i].name, domain |-> cs[i].domain] : i \in 1..Len(cs)}

\* set_consent_cookie is called on a tab in any state, on a jar that may
\* hold the cookies of an earlier run
InitSeed ==
    /\ pc = "seed"
    /\ stage = "pre-seed"
    /\ now = 0
    /\ deadline = 0
    /\ url \in LandingUrls(TargetUrl) \cup {BlankUrl}
    /\ doc \in Docs
    /\ cookies \in {{}, Stored(SeedCookies), ScriptCookies(TargetUrl)}
    /\ result = "none"
    /\ ops = <<>>
    /\ detect = NoDetect
    /\ evald = {}
    /\ adCleared = FALSE
    /\ poll = NoPoll
    /\ entry = [url |-> url, cookies |-> cookies]
    /\ swallowed = {}
    /\ diag = NoDiag
    /\ timeout_secs = 0
    /\ message = NoMessage
    /\ cdp = <<>>
    /\ scene = "other"
    /\ polled = 0

\* tab.call_method(Network::SetCookies { cookies: vec![..] })
SetCookiesCall ==
    /\ pc = "seed"
    /\ \E d \in EvalTimes, ok \in BOOLEAN :
         /\ now' = now + d
         /\ cdp' = Append(cdp, [method |-> "Network.setCookies",
                                cookies |-> SeedCookies, ok |-> ok])
         /\ cookies' = IF ok THEN cookies \cup Stored(SeedCookies) ELSE cookies
         /\ pc' = IF ok THEN "seed_ok" ELSE "seed_err"
    /\ UNCHANGED <<stage, deadline, url, doc, result, ops, detect, evald,
                   adCleared, poll, entry, swallowed, diag, timeout_secs,
                   message, scene, polled>>

\* the ? after call_method, or Ok(())
SeedReturn ==
    /\ pc \in {"seed_ok", "seed_err"}
    /\ Return(IF pc = "seed_ok" THEN "Ok" ELSE "SetCookiesError")
    /\ UNCHANGED <<stage, now, deadline, url, doc, cookies, ops, detect, evald,
                   adCleared, poll, entry, swallowed, diag, timeout_secs,
                   message, cdp, scene, polled>>

NextSeed ==
    \/ SetCookiesCall
    \/ SeedReturn

SpecSeed == InitSeed /\ [][NextSeed]_vars

\* ============================================================== properties
StageRank(st) ==
    CASE st = "consent" -> 0
      [] st = "ad-wait" -> 1
      [] st = "media-wait" -> 2
      [] st = "playback-kick" -> 3
      [] st = "playback-confirm" -> 4
      [] st = "settle" -> 5

\* the stage whose script x is
ScriptStage(x) ==
    CASE x \in PollStages -> x
      [] x = "kick_js" -> "playback-kick"
      [] x = "diag_js" -> "playback-confirm"
      [] x \in {"theater_js", "mouse_js"} -> "settle"

\* dismiss_consent has returned and prepare has not yet looked at its result
DcReturned == pc \in {"dc_ok", "dc_nav_err", "dc_eval_err"}

LastOp == ops[Len(ops)]

\* the thread is about to block in a wait
WaitPcs == {"dc_home_wait", "dc_target_wait", "poll_sleep", "settle_frame",
            "settle_theater", "settle_fade"}

\* C1: within one prepare call the stage never moves backward and never moves
\* forward by more than one stage, every script is evaluated in its own
\* stage, and as long as no ad-wait evaluation has returned false neither the
\* media-wait poll nor the playback-kick script nor the playback-confirm poll
\* (nor anything after them) has been evaluated.
C1_StageOrder ==
    /\ [][pc # "done" =>
            /\ StageRank(stage') \in {StageRank(stage), StageRank(stage) + 1}
            /\ \A x \in evald' \ evald : ScriptStage(x) = stage]_vars
    /\ [](~adCleared => evald \subseteq {"ad-wait"})

\* ad-wait was polled until the deadline without the ad ever clearing
C1_Witness ==
    /\ pc = "done"
    /\ result = "AdsTimedOut"
    /\ ~adCleared
    /\ evald = {"ad-wait"}

\* C2 (as stated): no blocking wait -- navigation wait, poll sleep, settle
\* pause -- is begun once the deadline has passed.
C2_NoWaitAfterDeadline ==
    [][(pc \in WaitPcs /\ pc' # pc) => now <= deadline]_vars

\* C2 (amended): the deadline gates the polls only: every evaluation of a
\* poll is started strictly before the deadline, and so every poll sleep
\* follows an evaluation that was started before the deadline.
C2_PollsGated ==
    [][(pc = "poll" /\ poll'.evals # poll.evals) =>
          (now < deadline /\ pc' \in {"poll_some", "poll_sleep"})]_vars

\* a settle pause that begins after the deadline, in a call all of whose poll
\* evaluations were started before it
C2_Witness ==
    /\ pc = "settle_theater"
    /\ now > deadline
    /\ {"ad-wait", "media-wait", "playback-confirm"} \subseteq evald

\* the script of the current poll has the expected value on the page as it is
PredicateMatches == AsBool(PollScript(stage, doc)) = <<PollExpect(stage)>>

\* C3 (as stated): a poll entered while the predicate has the expected value
\* (and whose evaluation does not fail) returns success after one evaluation
\* and no sleep, whatever the deadline.
C3_FastPathAnyDeadline ==
    [][(/\ pc = "poll" /\ poll.evals = 0
        /\ PredicateMatches
        /\ pc' # "poll" /\ poll'.last # EvalErr) =>
          (pc' = "poll_some" /\ poll'.evals = 1 /\ poll'.sleeps = 0)]_vars

\* C3 (amended): a poll entered strictly before the deadline while the
\* predicate has the expected value (and whose evaluation does not fail)
\* returns success after one evaluation and no sleep.
C3_FastPath ==
    [][(/\ pc = "poll" /\ poll.evals = 0
        /\ now < deadline
        /\ PredicateMatches
        /\ pc' # "poll" /\ poll'.last # EvalErr) =>
          (pc' = "poll_some" /\ poll'.evals = 1 /\ poll'.sleeps = 0)]_vars

\* the media-wait poll has just succeeded on its first evaluation
C3_Witness ==
    /\ pc = "poll_some"
    /\ stage = "media-wait"
    /\ poll.evals = 1
    /\ poll.sleeps = 0

\* C4 (as stated): a poll that times out returns no later than the deadline
\* plus one tick interval, has started no evaluation at or after the deadline,
\* and has slept across the deadline at most once.
C4_TimeoutByDeadlinePlusTick ==
    pc = "poll_none" =>
      /\ now <= deadline + PollIntervalMs
      /\ (poll.evals > 0 => poll.lastStart < deadline)
      /\ poll.overlaps <= 1

\* C4 (amended): no evaluation of a poll is started at or after the
\* deadline and at most one sleep overlaps the deadline; a poll that times
\* out either was entered at or after the deadline and returns at once
\* without an evaluation, or returns one tick interval after the end of its
\* last evaluation, which was started before the deadline.
C4_TimeoutBound ==
    /\ (pc \in {"poll", "poll_some", "poll_sleep", "poll_none"} /\ poll.evals > 0) =>
          poll.lastStart < deadline
    /\ poll.overlaps <= 1
    /\ pc = "poll_none" =>
          /\ now >= deadline
          /\ IF poll.evals = 0
             THEN poll.sleeps = 0
             ELSE /\ poll.sleeps = poll.evals
                  /\ now = poll.lastStart + poll.lastDur + PollIntervalMs

\* a poll timed out later than the deadline plus one tick: its last evaluation
\* was in flight at the deadline
C4_Witness ==
    /\ pc = "poll_none"
    /\ poll.evals > 0
    /\ now > deadline + PollIntervalMs

\* C5: a tick whose evaluation fails or yields a non-boolean is followed by
\* the sleep, for either expected value: it never returns success and never
\* ends prepare; a poll returns success only on a boolean equal to the
\* expected value, returns the timeout only once the deadline is reached, and
\* a prepare call that ends in a poll stage ends with that stage's timeout.
C5_FailureIsMismatch ==
    /\ [][(pc = "poll" /\ poll'.evals # poll.evals /\ AsBool(poll'.last) = <<>>) =>
            (pc' = "poll_sleep" /\ result' = "none")]_vars
    /\ [](pc = "poll_some" => poll.last \in {JsBool(TRUE), JsBool(FALSE)})
    /\ [](pc = "poll_some" => poll.last.b = (stage # "ad-wait"))
    /\ [](pc = "poll_none" => now >= deadline)
    /\ []((pc = "done" /\ stage \in PollStages) =>
            result \in {"AdsTimedOut", "VideoTimedOut", "PlayTimedOut"})

\* the ad-wait poll, which waits for false, sleeps after a failed evaluation
C5_Witness ==
    /\ pc = "poll_sleep"
    /\ stage = "ad-wait"
    /\ poll.last = EvalErr

IsNavigation(o, to) == o.op = "navigate" /\ o.url = to

\* C6: when the detection script reports no dialog, dismiss_consent returns
\* success at once, having issued no navigation and no cookie write and
\* leaving the tab's URL and the cookie jar as they were at its entry; this
\* holds for every call, whatever earlier calls did.
C6_NoDialogNoEffect ==
    (detect.done /\ detect.outcome = JsBool(FALSE)) =>
      /\ pc = "dc_ok"
      /\ ops = <<>>
      /\ url = entry.url
      /\ cookies = entry.cookies

\* a later call on a tab whose cookies an earlier call has written finds no
\* dialog
C6_Witness ==
    /\ pc = "dc_ok"
    /\ detect.outcome = JsBool(FALSE)
    /\ cookies # {}

\* C7 (as stated): whenever a dialog was detected, dismiss_consent returns
\* with a navigation to the target URL as the last operation it issued.
C7_AlwaysBackToTarget ==
    (DcReturned /\ detect.found) =>
      (ops # <<>> /\ IsNavigation(LastOp, TargetUrl))

\* C7 (amended): whenever a dialog was detected and dismiss_consent returns
\* success, the last operation it issued is a navigation to the target URL
\* whose wait completed, with or without a home-page navigation before it;
\* when it returns an error, the operation issued last is the one that
\* failed, and nothing was issued after it.
C7_BackToTargetOnSuccess ==
    /\ (pc = "dc_ok" /\ detect.found) =>
          /\ ops # <<>>
          /\ IsNavigation(LastOp, TargetUrl)
          /\ LastOp.status = "done"
          /\ \A i \in 1..(Len(ops) - 1) : ~IsNavigation(ops[i], TargetUrl)
    /\ pc \in {"dc_nav_err", "dc_eval_err"} =>
          /\ ops # <<>>
          /\ LastOp.status \in {"refused", "failed"}
          /\ \A i \in 1..(Len(ops) - 1) : ops[i].status = "done"

\* back on the target after an off-site redirect and a home-page navigation
C7_Witness ==
    /\ pc = "dc_ok"
    /\ detect.found
    /\ ~OnSite(detect.url)
    /\ Len(ops) = 3
    /\ IsNavigation(ops[1], HomeUrl)

\* C8: when a dialog was detected on a page that is not on the target site's
\* domain, the cookie write is preceded by a completed navigation to the home
\* page.
C8_HomeBeforeCookieWrite ==
    (detect.found /\ ~OnSite(detect.url)) =>
      \A i \in 1..Len(ops) :
        ops[i].op = "cookie" =>
          \E j \in 1..(i - 1) : IsNavigation(ops[j], HomeUrl) /\ ops[j].status = "done"

\* C9 (as stated): when a dialog was detected on a page of the target site,
\* dismiss_consent returns having issued exactly one cookie write followed by
\* exactly one navigation, to the target URL.
C9_OneWriteOneNavigation ==
    (DcReturned /\ detect.found /\ OnSite(detect.url)) =>
      /\ Len(ops) = 2
      /\ ops[1].op = "cookie"
      /\ IsNavigation(ops[2], TargetUrl)

\* C9 (amended): when a dialog was detected on a page of the target site,
\* dismiss_consent issues exactly one cookie write, first, and never a
\* navigation to the home page; if the write succeeds it is followed by
\* exactly one navigation, to the target URL, and if it fails nothing follows.
C9_OneWriteThenTarget ==
    (DcReturned /\ detect.found /\ OnSite(detect.url)) =>
      /\ Len(ops) >= 1
      /\ ops[1].op = "cookie"
      /\ \A i \in 1..Len(ops) : ~IsNavigation(ops[i], HomeUrl)
      /\ IF ops[1].status = "done"
         THEN Len(ops) = 2 /\ IsNavigation(ops[2], TargetUrl)
         ELSE Len(ops) = 1

\* a marker on the target page itself: cookie write, then the target again
C9_Witness ==
    /\ pc = "dc_ok"
    /\ detect.found
    /\ detect.url = TargetUrl
    /\ Len(ops) = 2

\* C10: whatever the outcome of the playback-kick, theater-toggle and
\* mouse-event evaluations, prepare goes on to the next step without a
\* result; a call that has reached the settle stage ends with success, and a
\* call that fails after the consent stage fails with a poll timeout.
C10_BestEffortNeverFails ==
    /\ [][/\ (pc = "kick" /\ pc' # pc) =>
               (pc' = "poll" /\ stage' = "playback-confirm" /\ result' = "none")
          /\ (pc = "theater" /\ pc' # pc) =>
               (pc' = "settle_theater" /\ result' = "none")
          /\ (pc = "mouse" /\ pc' # pc) =>
               (pc' = "settle_fade" /\ result' = "none")]_vars
    /\ []((pc = "done" /\ stage = "settle") => result = "Ok")
    /\ []((pc = "done" /\ swallowed # {}) =>
            result \in {"Ok", "PlayTimedOut"})

\* success although all three best-effort evaluations failed
C10_Witness ==
    /\ pc = "done"
    /\ result = "Ok"
    /\ swallowed = {"kick_js", "theater_js", "mouse_js"}

Failures == {"NavigateError", "EvaluateError", "AdsTimedOut", "VideoTimedOut",
             "PlayTimedOut"}

\* C11: a prepare call ends with exactly one result, success or one of the
\* failures; it ends with success exactly in the settle stage, with a
\* navigation or evaluation error exactly in the consent stage and with the
\* ads, video and playback timeouts exactly in the ad-wait, media-wait and
\* playback-confirm stages, never in the playback-kick stage.  A stage that
\* fails ends the call: the failing step leaves the stage as it is, a poll
\* that timed out is followed by the end of the call (after the diagnostic
\* snapshot, for playback-confirm), and the result stays until the caller
\* makes a new call.
C11_TerminalStates ==
    /\ []((pc = "done") <=> (result # "none"))
    /\ [](result \in Failures \cup {"Ok", "none"})
    /\ [](pc = "done" =>
            /\ (result = "Ok") <=> (stage = "settle")
            /\ (result \in {"NavigateError", "EvaluateError"}) <=> (stage = "consent")
            /\ (result = "AdsTimedOut") <=> (stage = "ad-wait")
            /\ (result = "VideoTimedOut") <=> (stage = "media-wait")
            /\ (result = "PlayTimedOut") <=> (stage = "playback-confirm"))
    /\ [][/\ (result = "none" /\ result' \in Failures) => stage' = stage
          /\ (pc = "poll_none" /\ pc' # pc) => pc' \in {"done", "diag"}
          /\ (pc = "diag" /\ pc' # pc) => pc' = "done"
          /\ (pc \in {"dc_nav_err", "dc_eval_err"} /\ pc' # pc) => pc' = "done"
          /\ (result # "none") => (result' = result \/ pc' = "dc_detect")]_vars

\* a call that failed in its media-wait stage, after the ads had cleared
C11_Witness ==
    /\ pc = "done"
    /\ result = "VideoTimedOut"
    /\ stage = "media-wait"
    /\ adCleared

Timeouts == {"AdsTimedOut", "VideoTimedOut", "PlayTimedOut"}

\* C12: while the ad flag is set an ad-wait evaluation never ends the poll,
\* and a call that got past the consent stage without the ad flag ever read
\* as false fails with the ads timeout; each of the three timeout errors
\* carries its own text and the caller's timeout_secs, and no other outcome
\* carries a timeout text.
C12_TimeoutMessages ==
    /\ [][(stage = "ad-wait" /\ pc = "poll" /\ doc.player = "ad-showing")
            => pc' # "poll_some"]_vars
    /\ [](pc = "done" /\ stage # "consent" /\ ~adCleared
            => result = "AdsTimedOut")
    /\ [](result = "AdsTimedOut" =>
            /\ message.text = "Timed out waiting for YouTube ads to finish ({}s)"
            /\ message.secs = timeout_secs)
    /\ [](result = "VideoTimedOut" =>
            /\ message.text = "Timed out after {}s waiting for a <video> element"
            /\ message.secs = timeout_secs)
    /\ [](result = "PlayTimedOut" =>
            /\ message.text =
                 "Timed out after {}s waiting for video to play. State: {}"
            /\ message.secs = timeout_secs)
    /\ [](result \notin Timeouts => message = NoMessage)

C12_Witness ==
    /\ pc = "done"
    /\ result = "AdsTimedOut"
    /\ "ad-wait" \in evald
    /\ doc.player = "ad-showing"
    /\ message.secs = 1
    /\ timeout_secs = 1

BufferedButPaused(d) ==
    d.video.present /\ d.video.readyState >= HaveFutureData /\ d.video.paused

\* C13 as stated: whenever the playback timeout is returned for a media
\* element that is buffered and paused, the snapshot in the error reports
\* paused=true and the element's readiness level.
C13_SnapshotAlwaysReports ==
    (pc = "done" /\ result = "PlayTimedOut" /\ BufferedButPaused(doc)) =>
        /\ diag.text = "state"
        /\ diag.paused
        /\ diag.readyState = doc.video.readyState

\* C13: a playback-confirm evaluation of a paused media element never ends
\* the poll; the diagnostic script is evaluated only after the
\* playback-confirm poll returned None, with the deadline passed, and so
\* exactly in the calls that fail with the playback timeout; the snapshot is
\* "unknown" when that evaluation failed, and otherwise reports the media
\* element's paused flag and readiness level (or that there is no element).
C13_Snapshot ==
    /\ [][(stage = "playback-confirm" /\ pc = "poll" /\ doc.video.paused)
            => pc' # "poll_some"]_vars
    /\ [](pc = "diag" => stage = "playback-confirm" /\ now >= deadline)
    /\ []("diag_js" \in evald <=> result = "PlayTimedOut")
    /\ [](result # "PlayTimedOut" => diag = NoDiag)
    /\ [](result = "PlayTimedOut" =>
            \/ diag = [text |-> "unknown", readyState |-> 0, paused |-> FALSE]
            \/ /\ ~doc.video.present
               /\ diag = [text |-> "no video element", readyState |-> 0,
                          paused |-> FALSE]
            \/ /\ doc.video.present
               /\ diag = [text |-> "state",
                          readyState |-> doc.video.readyState,
                          paused |-> doc.video.paused])

C13_Witness ==
    /\ pc = "done"
    /\ result = "PlayTimedOut"
    /\ "playback-confirm" \in evald
    /\ BufferedButPaused(doc)
    /\ diag.text = "state"
    /\ diag.paused
    /\ diag.readyState = HaveFutureData

\* C14 as stated: on a page that has no consent marker, shows no ad and has
\* a buffered, playing media element all through the call, prepare returns
\* success.
C14_HappyPageAlwaysSucceeds ==
    (pc = "done" /\ scene \in {"steady", "hampered"}) => result = "Ok"

\* C14: on such a page, as long as every poll evaluation succeeds and every
\* poll finds the deadline not yet passed, the call never sleeps in a poll,
\* never times out, never navigates or writes a cookie; each poll returns
\* after exactly one evaluation, and the call ends with Ok, after the three
\* polls and the three settle pauses.
C14_HappyPath ==
    scene = "steady" =>
        /\ pc \in {"dc_detect", "dc_ok", "poll", "poll_some", "kick",
                    "settle_frame", "theater", "settle_theater", "mouse",
                    "settle_fade", "done"}
        /\ pc = "poll" => poll.evals = 0
        /\ pc = "poll_some" => poll.evals = 1 /\ poll.sleeps = 0
        /\ ops = <<>>
        /\ pc = "done" =>
              /\ result = "Ok"
              /\ PollStages \subseteq evald
              /\ now >= FrameSettleMs + TheaterSettleMs + FadeOutMs

C14_Witness ==
    /\ pc = "done"
    /\ scene = "steady"
    /\ result = "Ok"
    /\ deadline > 0

MaxEvalTime == 250 * MaxEvalSteps

\* C15 as stated: the time spent inside the three polls never exceeds the
\* budget, the span from the entry of prepare (clock 0) to the deadline.
C15_PollingWithinBudget == polled <= deadline

\* C15: within a call the deadline (and timeout_secs) never changes; in
\* every poll stage a deadline test made at or after that one deadline ends
\* the poll without an evaluation and without spending time, a poll ends
\* with None only then, and polling time is spent only by an evaluation
\* begun before the deadline or by the sleep that follows one; so the time
\* spent in the three polls together stays below the budget plus one
\* evaluation and one poll interval.
C15_SharedDeadline ==
    /\ [][pc # "done" => (deadline' = deadline /\ timeout_secs' = timeout_secs)]_vars
    /\ [][(pc = "poll" /\ now >= deadline) =>
            /\ pc' \in {"poll", "poll_none"}
            /\ polled' = polled
            /\ evald' = evald]_vars
    /\ [][(pc = "poll" /\ pc' = "poll_none") => now >= deadline]_vars
    /\ [][polled' # polled =>
            \/ pc = "done"
            \/ pc = "poll" /\ now < deadline /\ stage \in PollStages
            \/ pc = "poll_sleep" /\ poll.lastStart < deadline]_vars
    /\ [](polled <= now)
    /\ [](polled > 0 => polled < deadline + MaxEvalTime + PollIntervalMs)

\* the ad wait used up the budget and the media-wait poll, entered after the
\* deadline, ended without an evaluation
C15_Witness ==
    /\ stage = "media-wait"
    /\ pc = "poll_none"
    /\ adCleared
    /\ "media-wait" \notin evald
    /\ polled > deadline
    /\ deadline > 0

\* C17: set_consent_cookie makes one Network.setCookies call and no other
\* tab operation: the call carries exactly two records, both named SOCS, for
\* .youtube.com and .google.com; nothing is navigated or evaluated and the
\* tab stays on its URL; the function returns an error exactly when the call
\* failed, after that single call, leaving the jar as it was.
C17_SeedOnce ==
    /\ Len(cdp) = (IF pc = "seed" THEN 0 ELSE 1)
    /\ \A i \in 1..Len(cdp) :
         /\ cdp[i].method = "Network.setCookies"
         /\ Len(cdp[i].cookies) = 2
         /\ \A j \in 1..2 : cdp[i].cookies[j].name = "SOCS"
         /\ {cdp[i].cookies[j].domain : j \in 1..2} = {".youtube.com", ".google.com"}
    /\ ops = <<>> /\ evald = {} /\ detect = NoDetect /\ swallowed = {}
    /\ url = entry.url
    /\ pc = "done" =>
         /\ result \in {"Ok", "SetCookiesError"}
         /\ (result = "SetCookiesError") <=> ~cdp[1].ok
         /\ result = "SetCookiesError" => cookies = entry.cookies
         /\ result = "Ok" =>
               {c \in cookies : c.name = "SOCS"} =
                 {[name |-> "SOCS", domain |-> ".youtube.com"],
                  [name |-> "SOCS", domain |-> ".google.com"]}

C17_Witness ==
    /\ pc = "done"
    /\ result = "SetCookiesError"
    /\ Len(cdp) = 1
    /\ ~cdp[1].ok
    /\ url = BlankUrl

ConsentErrPcs == {"dc_nav_err", "dc_eval_err"}

\* C18: a navigation or cookie write of dismiss_consent that failed is the
\* last operation dismiss_consent performs: after a failed cookie write no
\* navigation to the target is issued, after a failed home-page navigation
\* no cookie is written; the next step of the program is prepare returning
\* that failure, with no time spent in between, and a call that ended with
\* such a failure has evaluated no ad-wait, media-wait, kick, confirm,
\* diagnostic or settle script and has spent no time polling.
C18_ConsentFailurePropagates ==
    /\ [](\A i \in 1..Len(ops) :
            ops[i].status \in {"failed", "refused"} =>
                i = Len(ops) /\ pc \in ConsentErrPcs)
    /\ [](pc \in ConsentErrPcs =>
            /\ detect.found
            /\ LastOp.status \in {"failed", "refused"})
    /\ [](pc = "dc_eval_err" =>
            /\ LastOp.op = "cookie"
            /\ \A i \in 1..Len(ops) : ~IsNavigation(ops[i], TargetUrl))
    /\ [](pc = "dc_nav_err" =>
            /\ LastOp.op = "navigate"
            /\ LastOp.url = HomeUrl => \A i \in 1..Len(ops) : ops[i].op # "cookie")
    /\ [][(pc \in ConsentErrPcs /\ pc' # pc) =>
            /\ pc' = "done"
            /\ result' = (IF pc = "dc_nav_err" THEN "NavigateError"
                                               ELSE "EvaluateError")
            /\ now' = now
            /\ evald' = {}]_vars
    /\ [](result \in {"NavigateError", "EvaluateError"} =>
            /\ stage = "consent"
            /\ evald = {}
            /\ swallowed = {}
            /\ polled = 0
            /\ diag = NoDiag
            /\ message = NoMessage)

C18_Witness ==
    /\ pc = "dc_eval_err"
    /\ Len(ops) = 2
    /\ IsNavigation(ops[1], HomeUrl)
    /\ ops[1].status = "done"
    /\ ops[2].status = "failed"

\* C19: a poll stage is left for the next stage only from a poll whose last
\* evaluation returned the awaited value (false for ad-wait, true for
\* media-wait and playback-confirm) and was begun strictly before the
\* deadline; the stages follow one another in the one order, and Ok is
\* returned only from the settle stage, so behind every Ok lie the three
\* successful evaluations in that order. A deadline test of the ad-wait poll
\* made at or after the deadline ends the poll without an evaluation, and an
\* ad-wait poll that ended with None makes prepare fail with the ads
\* timeout, whatever the page shows.
C19_ReadyOnlyAfterThreeMatches ==
    /\ [](pc = "poll_some" =>
            /\ poll.evals >= 1
            /\ poll.last = JsBool(stage # "ad-wait")
            /\ poll.lastStart < deadline)
    /\ [][(stage \in PollStages /\ stage' # stage /\ pc # "done")
            => pc = "poll_some"]_vars
    /\ [][stage' # stage =>
            \/ stage' = "consent" /\ pc = "done"
            \/ stage = "consent" /\ stage' = "ad-wait"
            \/ stage = "ad-wait" /\ stage' = "media-wait"
            \/ stage = "media-wait" /\ stage' = "playback-kick"
            \/ stage = "playback-kick" /\ stage' = "playback-confirm"
            \/ stage = "playback-confirm" /\ stage' = "settle"]_vars
    /\ [](result = "Ok" =>
            /\ stage = "settle"
            /\ adCleared
            /\ PollStages \subseteq evald)
    /\ [][(stage = "ad-wait" /\ pc = "poll" /\ now >= deadline) =>
            /\ pc' \in {"poll", "poll_none"}
            /\ evald' = evald]_vars
    /\ [][(stage = "ad-wait" /\ pc = "poll_none" /\ pc' # pc) =>
            /\ pc' = "done"
            /\ result' = "AdsTimedOut"]_vars
    /\ [](pc = "done" /\ stage # "consent" /\ "ad-wait" \notin evald
            => result = "AdsTimedOut")

\* the deadline had passed at entry: the ads timeout with nothing evaluated,
\* on a page that was ad-free and playing all along
C19_Witness ==
    /\ pc = "done"
    /\ result = "AdsTimedOut"
    /\ evald = {}
    /\ deadline = 0
    /\ scene = "hampered"
    /\ HappyPage(url, doc)

Count(seq, kind) == Cardinality({i \in 1..Len(seq) : seq[i].op = kind})

\* C20: the detection script is evaluated once, when dismiss_consent is
\* entered, and not again in the call; dismiss_consent issues at most one
\* navigation to the home page, then at most one cookie write, then at most
\* one navigation to the target, and nothing else; when it returns without
\* error prepare enters the ad-wait poll, also while the page that loaded
\* still shows the dialog; a detection whose evaluation failed counts as no
\* dialog: no navigation, no cookie write, and on to the ad-wait poll.
C20_DetectOnce ==
    /\ [][detect' # detect =>
            \/ pc = "dc_detect" /\ ~detect.done /\ detect'.done
            \/ DcReturned /\ detect' = NoDetect
            \/ pc = "done" /\ detect' = NoDetect]_vars
    /\ [][(pc' = "dc_detect" /\ pc # "dc_detect") => pc = "done"]_vars
    /\ [](pc = "dc_detect" <=> (stage = "consent" /\ ~detect.done /\ result = "none"))
    /\ [](/\ Count(ops, "navigate") <= 2
          /\ Count(ops, "cookie") <= 1
          /\ Len(ops) <= 3
          /\ \A i \in 1..Len(ops) :
                \/ IsNavigation(ops[i], HomeUrl) /\ i = 1
                \/ ops[i].op = "cookie" /\ (i = 1 \/ IsNavigation(ops[i - 1], HomeUrl))
                \/ IsNavigation(ops[i], TargetUrl) /\ i > 1 /\ ops[i - 1].op = "cookie")
    /\ [][(pc = "dc_ok" /\ pc' # pc) => (pc' = "poll" /\ stage' = "ad-wait")]_vars
    /\ [](detect.done /\ detect.outcome = EvalErr =>
            /\ ~detect.found
            /\ pc = "dc_ok"
            /\ ops = <<>>
            /\ cookies = entry.cookies
            /\ url = entry.url)

\* dismiss_consent returning without error after the re-navigation, to a
\* page that still shows the dialog
C20_Witness ==
    /\ pc = "dc_ok"
    /\ detect.found
    /\ Len(ops) = 3
    /\ LastOp.status = "done"
    /\ ConsentJs(url, doc) = JsBool(TRUE)
====
